---- MODULE Spec2Model ----
(***************************************************************************)
(* The dialogue turn orchestrator of src/api/roleplay.py: the send_text /  *)
(* send_audio request handlers, the turn ledger (rp_conversation_logs),    *)
(* the boundary escalation and goal-completion policy of                   *)
(* handle_npc_response, the history read get_history, and the session and  *)
(* team registry of src/api/roleplay_admin.py (start_session,              *)
(* complete_session, student_join_team, student_leave_team).               *)
(*                                                                         *)
(* Every request handler runs on a database connection of its own and no   *)
(* handler takes a lock, so a handler is modelled as a sequence of steps,  *)
(* one per SQL statement it issues; the calls to the classifier, the       *)
(* renderer and the synthesizer touch no shared state and are folded into  *)
(* the step that follows them.                                             *)
(***************************************************************************)
EXTENDS Integers, Sequences, FiniteSets, TLC

VARIABLES
    ledger,      \* rp_conversation_logs, in insertion (id) order
    status,      \* rp_sessions.status of the one session
    members,     \* rp_session_members: set of <<user_id, team_id>>
    recordings,  \* rp_pre_recordings: the canned-response catalog
    req,         \* per user: the locals of the submission being handled
    started,     \* number of requests issued since Init
    poll,        \* per user: the locals of the history read being handled
    join,        \* per connection: the locals of the join-team request
    admin        \* the answer to the last start_session / complete_session

vars == <<ledger, status, members, recordings, req, started, poll, join, admin>>

----------------------------------------------------------------------------
(* Program constants *)

\* roleplay.py:886 / 970: "if current_turn >= 8"
MaxTurns == 8
\* roleplay.py:680: "if total_violations >= 4"
ExitThreshold == 4
\* roleplay.py:697: "elif total_violations >= 3"
DynThreshold == 3
\* roleplay_admin.py:673: "if count >= 5"
MaxTeamSize == 5

(* Bounds of the model *)

\* requests (submissions, history reads, join-team requests) issued after Init
MaxRequests == 2

Users == {"u1", "u2"}
TeamIds == {1, 2}
\* the connections join-team requests arrive on
JoinSlots == {1, 2}
ScenarioId == 1

\* SQL NULL / Python None in a text column
NULL == "<NULL>"
\* SQL NULL in the analyst_json column
NoJson == [null |-> TRUE]

----------------------------------------------------------------------------
(* Python helpers *)

\* dict.get(key, default)
Get(d, k, default) == IF k \in DOMAIN d THEN d[k] ELSE default

\* truthiness of a text value: None and '' are falsy
Truthy(s) == s # NULL /\ s # ""

\* "a or b" on text values
Or(a, b) == IF Truthy(a) THEN a ELSE b

----------------------------------------------------------------------------
(* The classifier's parsed output (run_analyst / run_analyst_audio).  The   *)
(* three prompt formats, each with boundary and goal_achieved, and the      *)
(* record the parser substitutes for unparseable text.                      *)

PreOutput(b, g) ==
    [route |-> "PRE", category |-> "greeting", boundary |-> b, goal_achieved |-> g]

DynOutput(b, g) ==
    [route |-> "DYN", direction |-> <<"analyst">>, boundary |-> b, goal_achieved |-> g]

ParseError == [parse_error |-> TRUE]

\* outputs the prompt does not ask for but json.loads accepts: no route key,
\* and a route that is neither PRE nor DYN
NoRouteOutput(b, g) == [boundary |-> b, goal_achieved |-> g]

UnknownRouteOutput(b, g) == [route |-> "???", boundary |-> b, goal_achieved |-> g]

AnalystOutputs ==
    {PreOutput(b, g) : b \in {0, 1}, g \in BOOLEAN}
        \cup {DynOutput(b, g) : b \in {0, 1}, g \in BOOLEAN}
        \cup {ParseError}
        \cup {NoRouteOutput(0, FALSE), UnknownRouteOutput(0, FALSE)}

\* the outputs the escalation and goal policy tell apart
PolicyOutputs ==
    {PreOutput(0, g) : g \in BOOLEAN} \cup {DynOutput(b, g) : b \in {0, 1}, g \in BOOLEAN}

\* run_actor: the stripped line (possibly empty), or an exception
ActorOutcomes == {"line", "", "raise"}
\* run_tts: base64 audio, or None
TtsOutcomes == {"audio", NULL}

----------------------------------------------------------------------------
(* Ledger queries *)

OfPair(L, team) ==
    SelectSeq(L, LAMBDA r : r.team = team /\ r.scenario = ScenarioId)

PlayerRows(L, team) ==
    SelectSeq(OfPair(L, team), LAMBDA r : r.speaker = "player")

\* SELECT COUNT(*) ... WHERE team_id, scenario_id, speaker = 'player'
GetCurrentTurn(L, team) == Len(PlayerRows(L, team))

RECURSIVE CountBoundary(_)
CountBoundary(rows) ==
    IF rows = <<>> THEN 0
    ELSE LET aj == Head(rows).analyst_json
         IN  (IF aj # NoJson /\ Get(aj, "boundary", 0) = 1 THEN 1 ELSE 0)
                 + CountBoundary(Tail(rows))

\* mutant: every player turn counted, the boundary flag forgotten
GetTotalViolations_everyTurn(L, team) == Len(PlayerRows(L, team))

GetTotalViolations(L, team) == CountBoundary(PlayerRows(L, team))

\* ORDER BY turn_number ASC: the rows of turn n, then those of the later turns
\* (rows of one turn in insertion order)
RECURSIVE ByTurnNumber(_, _)
ByTurnNumber(rows, n) ==
    IF n > MaxTurns THEN <<>>
    ELSE SelectSeq(rows, LAMBDA r : r.turn_number = n) \o ByTurnNumber(rows, n + 1)

\* one entry of the history: "message_text or ''" for a player row,
\* "actor_line or message_text or ''" for an NPC row
HistoryEntry(row) ==
    IF row.speaker = "player"
    THEN [role |-> "player", text |-> Or(row.message_text, "")]
    ELSE [role |-> "npc", text |-> Or(row.actor_line, Or(row.message_text, ""))]

\* load_conversation_history: what the classifier and the renderer are shown
LoadConversationHistory(L, team) ==
    LET rows == ByTurnNumber(OfPair(L, team), 1)
    IN  [i \in 1..Len(rows) |-> HistoryEntry(rows[i])]

\* get_history: "turns_remaining": 8 - current_turn
HistoryTurnsRemaining(L, team) == MaxTurns - GetCurrentTurn(L, team)

\* json.dumps(analyst_json) if analyst_json else None
StoredJson(parsed) == IF DOMAIN parsed = {} THEN NoJson ELSE parsed

\* save_turn: INSERT INTO rp_conversation_logs, then commit
SaveTurn(L, team, turn_number, speaker, message_text, analyst_json, actor_line, tts, pre_audio_url, id) ==
    Append(L, [team |-> team, scenario |-> ScenarioId,
               turn_number |-> turn_number, speaker |-> speaker,
               message_text |-> message_text, analyst_json |-> analyst_json,
               actor_line |-> actor_line, tts_audio_base64 |-> tts,
               pre_audio_url |-> pre_audio_url, req |-> id])

----------------------------------------------------------------------------
(* The canned-response catalog *)

Recording(scenario, category, url, transcript) ==
    [scenario |-> scenario, category |-> category,
     cloudflare_url |-> url, transcript |-> transcript]

\* get_pre_audio_url: the <<url, transcript>> pairs ORDER BY RANDOM() LIMIT 1
\* may return: a variant with a url if there is one, else any variant, else
\* <<None, None>>
GetPreAudioUrl(R, category) ==
    LET rows == {r \in R : r.scenario = ScenarioId /\ r.category = category}
        withUrl == {r \in rows : r.cloudflare_url # NULL}
    IN  IF withUrl # {} THEN {<<r.cloudflare_url, r.transcript>> : r \in withUrl}
        ELSE IF rows # {} THEN {<<NULL, r.transcript>> : r \in rows}
        ELSE {<<NULL, NULL>>}

\* get_boundary_pre: any 'boundary_pre' variant of any scenario, else the
\* literal line
DefaultBoundaryLine == "ne?"

GetBoundaryPre(R) ==
    LET rows == {r \in R : r.category = "boundary_pre"}
    IN  IF rows # {} THEN {<<r.cloudflare_url, r.transcript>> : r \in rows}
        ELSE {<<NULL, DefaultBoundaryLine>>}

\* f"[PRE:{category}]"
PreMarker(category) ==
    CASE category = "greeting" -> "[PRE:greeting]"
      [] category = "not_understood" -> "[PRE:not_understood]"
      [] OTHER -> "[PRE:]"

----------------------------------------------------------------------------
(* handle_npc_response *)

ExitDirection == <<"boundary_exit">>
BoundaryDynDirection == <<"boundary_dyn">>
FarewellDirection == <<"farewell">>

\* mutant: the thresholds compared with > (the current turn left out)
BoundaryTier_strict(total_violations) ==
    IF total_violations > ExitThreshold THEN 2
    ELSE IF total_violations > DynThreshold THEN 1
    ELSE 0

\* mutant: the tier-1 test made first, so that the Exit is never reached
BoundaryTier_dynFirst(total_violations) ==
    IF total_violations >= DynThreshold THEN 1
    ELSE IF total_violations >= ExitThreshold THEN 2
    ELSE 0

\* mutant: the canned tier given up one violation early
BoundaryTier_earlyDyn(total_violations) ==
    IF total_violations >= ExitThreshold THEN 2
    ELSE IF total_violations >= DynThreshold - 1 THEN 1
    ELSE 0

\* mutant: the Exit given on the fourth violation only
BoundaryTier_exitOnce(total_violations) ==
    IF total_violations = ExitThreshold THEN 2
    ELSE IF total_violations >= DynThreshold THEN 1
    ELSE 0

\* the escalation tier of a boundary=1 turn: 2 Exit, 1 boundary DYN, 0 canned
BoundaryTier(total_violations) ==
    IF total_violations >= ExitThreshold THEN 2
    ELSE IF total_violations >= DynThreshold THEN 1
    ELSE 0

\* the lingering-effect annotation of a boundary=0 turn
Aftereffect(total_violations) ==
    IF total_violations >= 3 THEN <<"aftereffect_curt">>
    ELSE IF total_violations >= 1 THEN <<"aftereffect_hesitant">>
    ELSE <<>>

\* parsed['direction'] = d
WithDirection(parsed, d) ==
    [k \in DOMAIN parsed \cup {"direction"} |->
        IF k = "direction" THEN d ELSE parsed[k]]

\* parsed['route'] = 'DYN'
WithRouteDyn(parsed) ==
    [k \in DOMAIN parsed \cup {"route"} |->
        IF k = "route" THEN "DYN" ELSE parsed[k]]

\* "goal_achieved is True or goal_achieved == 'true'"
GoalAchieved(parsed) == Get(parsed, "goal_achieved", FALSE) = TRUE

\* mutant: earlier violations turn the route of a boundary=0 turn to DYN
AfterAftereffect_escalate(parsed, total_violations) ==
    LET a == Aftereffect(total_violations)
        d == Get(parsed, "direction", <<>>)
    IN  IF total_violations >= DynThreshold
        THEN WithRouteDyn(WithDirection(parsed, a \o d))
        ELSE IF total_violations > 0 /\ a # <<>>
        THEN WithDirection(parsed, a \o d)
        ELSE parsed

\* the normal flow's direction after the aftereffect is merged in
AfterAftereffect(parsed, total_violations) ==
    LET a == Aftereffect(total_violations)
        d == Get(parsed, "direction", <<>>)
    IN  IF total_violations > 0 /\ a # <<>>
        THEN WithDirection(parsed, a \o d)
        ELSE parsed

\* mutant: the farewell direction merged in, the route left as classified
AfterGoalCheck_keepRoute(parsed) ==
    IF GoalAchieved(parsed)
    THEN WithDirection(parsed, FarewellDirection \o Get(parsed, "direction", <<>>))
    ELSE parsed

\* the goal-achievement override: the farewell direction in front, route DYN
AfterGoalCheck(parsed) ==
    IF GoalAchieved(parsed)
    THEN WithRouteDyn(
             WithDirection(parsed, FarewellDirection \o Get(parsed, "direction", <<>>)))
    ELSE parsed

\* What one call of handle_npc_response may do: whether it raises; the NPC
\* row it saves, if any; the renderer call it makes, if any; the result
\* dictionary it returns.
Outcome(raised, saved, message_text, row_line, tts, pre_url, actor_calls, direction, actor_line, pre_transcript, is_exit, goal_achieved) ==
    [raised |-> raised, saved |-> saved, message_text |-> message_text,
     row_line |-> row_line, tts |-> tts, pre_url |-> pre_url,
     actor_calls |-> actor_calls, direction |-> direction,
     actor_line |-> actor_line, pre_transcript |-> pre_transcript,
     is_exit |-> is_exit, goal_achieved |-> goal_achieved]

ActorRaised(direction) ==
    Outcome(TRUE, FALSE, NULL, NULL, NULL, NULL, 1, direction,
            NULL, NULL, FALSE, FALSE)

\* mutant: a synthesizer failure raised instead of answered None
Generated_ttsFatal(direction, message_text, is_exit, goal_achieved, actors, ttss) ==
    {ActorRaised(direction) : a \in actors \cap {"raise"}}
        \cup
    {IF Truthy(a) /\ t = NULL
     THEN Outcome(TRUE, FALSE, NULL, NULL, NULL, NULL, 1, direction, a, NULL,
                  FALSE, FALSE)
     ELSE Outcome(FALSE, TRUE, message_text, a, IF Truthy(a) THEN t ELSE NULL, NULL,
                  1, direction, a, NULL, is_exit, goal_achieved)
        : a \in actors \ {"raise"}, t \in ttss}

\* run_actor, run_tts "if actor_line", save_turn: the generated route
Generated(direction, message_text, is_exit, goal_achieved, actors, ttss) ==
    {ActorRaised(direction) : a \in actors \cap {"raise"}}
        \cup
    {Outcome(FALSE, TRUE, message_text, a, IF Truthy(a) THEN t ELSE NULL, NULL,
             1, direction, a, NULL, is_exit, goal_achieved)
        : a \in actors \ {"raise"}, t \in ttss}

BoundaryBranch(parsed, total_violations, R, actors, ttss) ==
    CASE BoundaryTier(total_violations) = 2 ->
            Generated(ExitDirection, "[EXIT]", TRUE, FALSE, actors, ttss)
      [] BoundaryTier(total_violations) = 1 ->
            Generated(BoundaryDynDirection, NULL, FALSE, FALSE, actors, ttss)
      [] OTHER ->
            LET first == GetPreAudioUrl(R, "boundary_pre")
                picks == {p \in first : Truthy(p[1])}
                             \cup (IF \E p \in first : ~Truthy(p[1])
                                   THEN GetBoundaryPre(R) ELSE {})
            IN  {Outcome(FALSE, TRUE, "[BOUNDARY_PRE]", Or(p[2], DefaultBoundaryLine),
                         NULL, p[1], 0, <<>>, NULL, p[2], FALSE, FALSE)
                    : p \in picks}

\* mutant: the canned category's line rendered as well
NormalFlow_renderCanned(parsed, total_violations, R, actors, ttss) ==
    LET p2 == AfterGoalCheck(AfterAftereffect(parsed, total_violations))
        route == Get(p2, "route", NULL)
        goal == GoalAchieved(p2)
    IN  CASE route = "PRE" ->
                {Outcome(FALSE, TRUE, PreMarker(Get(p2, "category", "")), p[2],
                         NULL, p[1], 1, <<>>, NULL, p[2], FALSE, goal)
                    : p \in GetPreAudioUrl(R, Get(p2, "category", ""))}
          [] route = "DYN" ->
                Generated(Get(p2, "direction", <<>>),
                          IF goal THEN "[GOAL_ACHIEVED]" ELSE NULL,
                          FALSE, goal, actors, ttss)
          [] OTHER ->
                {Outcome(FALSE, FALSE, NULL, NULL, NULL, NULL, 0, <<>>,
                         NULL, NULL, FALSE, goal)}

NormalFlow(parsed, total_violations, R, actors, ttss) ==
    LET p2 == AfterGoalCheck(AfterAftereffect(parsed, total_violations))
        route == Get(p2, "route", NULL)
        goal == GoalAchieved(p2)
    IN  CASE route = "PRE" ->
                {Outcome(FALSE, TRUE, PreMarker(Get(p2, "category", "")), p[2],
                         NULL, p[1], 0, <<>>, NULL, p[2], FALSE, goal)
                    : p \in GetPreAudioUrl(R, Get(p2, "category", ""))}
          [] route = "DYN" ->
                Generated(Get(p2, "direction", <<>>),
                          IF goal THEN "[GOAL_ACHIEVED]" ELSE NULL,
                          FALSE, goal, actors, ttss)
          [] OTHER ->
                {Outcome(FALSE, FALSE, NULL, NULL, NULL, NULL, 0, <<>>,
                         NULL, NULL, FALSE, goal)}

\* mutant: the goal check made before the boundary check
HandleNpcResponse_goalFirst(parsed, total_violations, R, actors, ttss) ==
    IF Get(parsed, "boundary", 0) = 1 /\ ~GoalAchieved(parsed)
    THEN BoundaryBranch(parsed, total_violations, R, actors, ttss)
    ELSE NormalFlow(parsed, total_violations, R, actors, ttss)

HandleNpcResponse(parsed, total_violations, R, actors, ttss) ==
    IF Get(parsed, "boundary", 0) = 1
    THEN BoundaryBranch(parsed, total_violations, R, actors, ttss)
    ELSE NormalFlow(parsed, total_violations, R, actors, ttss)

----------------------------------------------------------------------------
(* send_text / send_audio: the locals of one request *)

NoResponse ==
    [code |-> "none", turn_number |-> 0, actor_line |-> NULL,
     tts_audio_base64 |-> NULL, pre_transcript |-> NULL, is_exit |-> FALSE,
     goal_achieved |-> FALSE, turns_remaining |-> 0]

Failure(code) == [NoResponse EXCEPT !.code = code]

IdleReq ==
    [pc |-> "idle", id |-> 0, team_id |-> 0, current_turn |-> 0,
     parsed |-> NoJson, new_turn |-> 0, total_violations |-> 0,
     analyst_calls |-> 0, actor_calls |-> 0, direction |-> <<>>,
     actor_line |-> NULL, response |-> NoResponse]

\* the id of the k-th submission issued after Init (the submissions replayed
\* into the initial ledger are numbered 1 .. MaxTurns at most)
RequestId(k) == MaxTurns + k

\* validate_player_session: the teams the JOIN may return for this user
ValidatePlayerSession(M, user_id) == {t \in TeamIds : <<user_id, t>> \in M}

\* step 6 of send_text: save the player turn with the classifier's record
PlayerTurn(L, team, new_turn, parsed, id) ==
    SaveTurn(L, team, new_turn, "player", "utterance", StoredJson(parsed),
             NULL, NULL, NULL, id)

\* mutant: the rows of the request taken back when handle_npc_response raises
NpcTurn_rollback(L, team, new_turn, o, id) ==
    IF o.saved
    THEN SaveTurn(L, team, new_turn, "npc", o.message_text, NoJson, o.row_line,
                  o.tts, o.pre_url, id)
    ELSE IF o.raised THEN SelectSeq(L, LAMBDA r : r.req # id)
    ELSE L

\* the save_turn of handle_npc_response, when the outcome saves a row
NpcTurn(L, team, new_turn, o, id) ==
    IF o.saved
    THEN SaveTurn(L, team, new_turn, "npc", o.message_text, NoJson, o.row_line,
                  o.tts, o.pre_url, id)
    ELSE L

\* mutant: the session status tested before the membership
Validate_statusFirst(u) ==
    /\ req[u].pc = "idle"
    /\ started < MaxRequests
    /\ started' = started + 1
    /\ LET fresh == [IdleReq EXCEPT !.id = RequestId(started + 1)]
           teams == ValidatePlayerSession(members, u)
       IN  IF status # "active"
           THEN req' = [req EXCEPT ![u] =
                           [fresh EXCEPT !.response = Failure("session_not_active")]]
           ELSE IF teams = {}
           THEN req' = [req EXCEPT ![u] = [fresh EXCEPT !.response = Failure("unauthorized")]]
           ELSE \E t \in teams :
                   req' = [req EXCEPT ![u] =
                              [fresh EXCEPT !.team_id = t, !.pc = "turn_limit"]]
    /\ UNCHANGED <<poll, join, admin, ledger, status, members, recordings>>

\* steps 1: validate_player_session, then the status check
Validate(u) ==
    /\ req[u].pc = "idle"
    /\ started < MaxRequests
    /\ started' = started + 1
    /\ LET fresh == [IdleReq EXCEPT !.id = RequestId(started + 1)]
           teams == ValidatePlayerSession(members, u)
       IN  IF teams = {}
           THEN req' = [req EXCEPT ![u] = [fresh EXCEPT !.response = Failure("unauthorized")]]
           ELSE \E t \in teams :
                   IF status # "active"
                   THEN req' = [req EXCEPT ![u] =
                                   [fresh EXCEPT !.team_id = t,
                                                 !.response = Failure("session_not_active")]]
                   ELSE req' = [req EXCEPT ![u] =
                                   [fresh EXCEPT !.team_id = t, !.pc = "turn_limit"]]
    /\ UNCHANGED <<poll, join, admin, ledger, status, members, recordings>>

\* mutant: the limit compared with >
CheckTurnLimit_offByOne(u) ==
    /\ req[u].pc = "turn_limit"
    /\ LET current_turn == GetCurrentTurn(ledger, req[u].team_id)
       IN  IF current_turn > MaxTurns
           THEN req' = [req EXCEPT ![u].pc = "idle",
                                   ![u].current_turn = current_turn,
                                   ![u].response = Failure("turn_limit_reached")]
           ELSE req' = [req EXCEPT ![u].pc = "analyst",
                                   ![u].current_turn = current_turn]
    /\ UNCHANGED <<poll, join, admin, ledger, status, members, recordings, started>>

\* mutant: the pair locked once an Exit turn is recorded
CheckTurnLimit_lockAfterExit(u) ==
    /\ req[u].pc = "turn_limit"
    /\ LET current_turn == GetCurrentTurn(ledger, req[u].team_id)
           rows == OfPair(ledger, req[u].team_id)
       IN  IF \/ current_turn >= MaxTurns
              \/ \E i \in DOMAIN rows : rows[i].message_text = "[EXIT]"
           THEN req' = [req EXCEPT ![u].pc = "idle",
                                   ![u].current_turn = current_turn,
                                   ![u].response = Failure("turn_limit_reached")]
           ELSE req' = [req EXCEPT ![u].pc = "analyst",
                                   ![u].current_turn = current_turn]
    /\ UNCHANGED <<poll, join, admin, ledger, status, members, recordings, started>>

\* step 2: get_current_turn and the turn limit
CheckTurnLimit(u) ==
    /\ req[u].pc = "turn_limit"
    /\ LET current_turn == GetCurrentTurn(ledger, req[u].team_id)
       IN  IF current_turn >= MaxTurns
           THEN req' = [req EXCEPT ![u].pc = "idle",
                                   ![u].current_turn = current_turn,
                                   ![u].response = Failure("turn_limit_reached")]
           ELSE req' = [req EXCEPT ![u].pc = "analyst",
                                   ![u].current_turn = current_turn]
    /\ UNCHANGED <<poll, join, admin, ledger, status, members, recordings, started>>

\* mutant: the player turn written over a recorded player turn of the same
\* (team, turn_number)
ClassifyAndSavePlayer_overwrite(u, outputs) ==
    /\ req[u].pc = "analyst"
    /\ \E parsed \in outputs :
          LET new_turn == req[u].current_turn + 1
              row == PlayerTurn(<<>>, req[u].team_id, new_turn, parsed, req[u].id)[1]
              same == {k \in DOMAIN ledger :
                          /\ ledger[k].team = row.team
                          /\ ledger[k].turn_number = new_turn
                          /\ ledger[k].speaker = "player"}
          IN  /\ ledger' = IF same = {}
                           THEN Append(ledger, row)
                           ELSE [k \in DOMAIN ledger |->
                                    IF k \in same THEN row ELSE ledger[k]]
              /\ req' = [req EXCEPT ![u].pc = "violations",
                                    ![u].parsed = parsed,
                                    ![u].new_turn = new_turn,
                                    ![u].analyst_calls = 1]
    /\ UNCHANGED <<poll, join, admin, status, members, recordings, started>>

\* steps 3-6: load the scenario and the history, call the classifier, save
\* the player turn as current_turn + 1
ClassifyAndSavePlayer(u, outputs) ==
    /\ req[u].pc = "analyst"
    /\ \E parsed \in outputs :
          LET new_turn == req[u].current_turn + 1
          IN  /\ ledger' = PlayerTurn(ledger, req[u].team_id, new_turn, parsed, req[u].id)
              /\ req' = [req EXCEPT ![u].pc = "violations",
                                    ![u].parsed = parsed,
                                    ![u].new_turn = new_turn,
                                    ![u].analyst_calls = 1]
    /\ UNCHANGED <<poll, join, admin, status, members, recordings, started>>

\* the classifier call raises (network, quota): the except clause answers 500
ClassifierRaises(u) ==
    /\ req[u].pc = "analyst"
    /\ req' = [req EXCEPT ![u].pc = "idle",
                          ![u].analyst_calls = 1,
                          ![u].response = Failure("error")]
    /\ UNCHANGED <<poll, join, admin, ledger, status, members, recordings, started>>

\* handle_npc_response, first statement of either branch: get_total_violations
ReadViolations(u) ==
    /\ req[u].pc = "violations"
    /\ req' = [req EXCEPT ![u].pc = "npc",
                          ![u].total_violations =
                              GetTotalViolations(ledger, req[u].team_id)]
    /\ UNCHANGED <<poll, join, admin, ledger, status, members, recordings, started>>

\* handle_npc_response, the rest, and the response of send_text
NpcResponse(u, actors, ttss) ==
    /\ req[u].pc = "npc"
    /\ \E o \in HandleNpcResponse(req[u].parsed, req[u].total_violations,
                                   recordings, actors, ttss) :
          /\ ledger' = NpcTurn(ledger, req[u].team_id, req[u].new_turn, o, req[u].id)
          /\ req' = [req EXCEPT
                        ![u].pc = "idle",
                        ![u].actor_calls = o.actor_calls,
                        ![u].direction = o.direction,
                        ![u].actor_line = o.actor_line,
                        ![u].response =
                            IF o.raised THEN Failure("error")
                            ELSE [code |-> "success",
                                  turn_number |-> req[u].new_turn,
                                  actor_line |-> o.actor_line,
                                  tts_audio_base64 |-> o.tts,
                                  pre_transcript |-> o.pre_transcript,
                                  is_exit |-> o.is_exit,
                                  goal_achieved |-> o.goal_achieved,
                                  turns_remaining |-> MaxTurns - req[u].new_turn]]
    /\ UNCHANGED <<poll, join, admin, status, members, recordings, started>>

----------------------------------------------------------------------------
(* get_history: the history read *)

NoHistory ==
    [code |-> "none", logs |-> <<>>, current_turn |-> 0, turns_remaining |-> 0]

IdlePoll == [pc |-> "idle", team_id |-> 0, logs |-> <<>>, response |-> NoHistory]

\* the columns get_history selects
LogColumns(r) ==
    [turn_number |-> r.turn_number, speaker |-> r.speaker,
     message_text |-> r.message_text, actor_line |-> r.actor_line,
     analyst_json |-> r.analyst_json, tts_audio_base64 |-> r.tts_audio_base64,
     pre_audio_url |-> r.pre_audio_url]

\* SELECT ... WHERE team_id, scenario_id ORDER BY turn_number ASC, id ASC
GetHistoryLogs(L, team) ==
    LET rows == ByTurnNumber(OfPair(L, team), 1)
    IN  [i \in 1..Len(rows) |-> LogColumns(rows[i])]

\* validate_player_session; the session status is not looked at
PollValidate(u) ==
    /\ poll[u].pc = "idle"
    /\ started < MaxRequests
    /\ started' = started + 1
    /\ LET teams == ValidatePlayerSession(members, u)
       IN  IF teams = {}
           THEN poll' = [poll EXCEPT ![u] =
                            [IdlePoll EXCEPT !.response.code = "unauthorized"]]
           ELSE \E t \in teams :
                   poll' = [poll EXCEPT ![u] =
                               [IdlePoll EXCEPT !.pc = "logs", !.team_id = t]]
    /\ UNCHANGED <<ledger, status, members, recordings, req, join, admin>>

\* the SELECT of the turns
PollLogs(u) ==
    /\ poll[u].pc = "logs"
    /\ poll' = [poll EXCEPT ![u].pc = "count",
                            ![u].logs = GetHistoryLogs(ledger, poll[u].team_id)]
    /\ UNCHANGED <<ledger, status, members, recordings, req, started, join, admin>>

\* mutant: the turn count taken from the turns read one statement earlier
PollCount_fromLogs(u) ==
    /\ poll[u].pc = "count"
    /\ LET current_turn ==
               Len(SelectSeq(poll[u].logs, LAMBDA r : r.speaker = "player"))
       IN  poll' = [poll EXCEPT
                       ![u].pc = "idle",
                       ![u].response =
                           [code |-> "success", logs |-> poll[u].logs,
                            current_turn |-> current_turn,
                            turns_remaining |-> MaxTurns - current_turn]]
    /\ UNCHANGED <<ledger, status, members, recordings, req, started, join, admin>>

\* get_current_turn and the response
PollCount(u) ==
    /\ poll[u].pc = "count"
    /\ poll' = [poll EXCEPT
                    ![u].pc = "idle",
                    ![u].response =
                        [code |-> "success", logs |-> poll[u].logs,
                         current_turn |-> GetCurrentTurn(ledger, poll[u].team_id),
                         turns_remaining |->
                             HistoryTurnsRemaining(ledger, poll[u].team_id)]]
    /\ UNCHANGED <<ledger, status, members, recordings, req, started, join, admin>>

----------------------------------------------------------------------------
(* roleplay_admin.py: the session lifecycle *)

NoAnswer == [op |-> "none", code |-> "none"]

\* mutant: the UPDATE without its "AND status='waiting'"
StartSession_anyStatus ==
    /\ status' = "active"
    /\ admin' = [op |-> "start", code |-> "success"]
    /\ UNCHANGED <<ledger, members, recordings, req, started, poll, join>>

\* start_session: UPDATE ... SET status='active' WHERE status='waiting';
\* rowcount 0 is answered 400
StartSession ==
    /\ IF status = "waiting"
       THEN /\ status' = "active"
            /\ admin' = [op |-> "start", code |-> "success"]
       ELSE /\ status' = status
            /\ admin' = [op |-> "start", code |-> "rejected"]
    /\ UNCHANGED <<ledger, members, recordings, req, started, poll, join>>

\* complete_session: UPDATE ... SET status='completed'
\* WHERE status IN ('waiting','active'); always answered success
CompleteSession ==
    /\ status' = IF status \in {"waiting", "active"} THEN "completed" ELSE status
    /\ admin' = [op |-> "complete", code |-> "success"]
    /\ UNCHANGED <<ledger, members, recordings, req, started, poll, join>>

----------------------------------------------------------------------------
(* roleplay_admin.py: student_join_team / student_leave_team *)

IdleJoin ==
    [pc |-> "idle", user_id |-> "", team_id |-> 0, response |-> "none"]

\* the members of a team
TeamMembers(M, team) == {m \in M : m[2] = team}

\* the first SELECT: the team and the status of its session
JoinTeam(s, u, t) ==
    /\ join[s].pc = "idle"
    /\ started < MaxRequests
    /\ started' = started + 1
    /\ join' = [join EXCEPT ![s] =
                    IF status = "completed"
                    THEN [IdleJoin EXCEPT !.user_id = u, !.team_id = t,
                                          !.response = "session_completed"]
                    ELSE [IdleJoin EXCEPT !.user_id = u, !.team_id = t,
                                          !.pc = "existing"]]
    /\ UNCHANGED <<ledger, status, members, recordings, req, poll, admin>>

\* the second SELECT: is the user in a team of this session already
JoinCheckExisting(s) ==
    /\ join[s].pc = "existing"
    /\ join' = [join EXCEPT ![s] =
                    IF \E m \in members : m[1] = join[s].user_id
                    THEN [@ EXCEPT !.pc = "idle", !.response = "already_in_team"]
                    ELSE [@ EXCEPT !.pc = "count"]]
    /\ UNCHANGED <<ledger, status, members, recordings, req, started, poll, admin>>

\* the third SELECT: COUNT(*) of the team's members, "if count >= 5"
JoinCheckCount(s) ==
    /\ join[s].pc = "count"
    /\ join' = [join EXCEPT ![s] =
                    IF Cardinality(TeamMembers(members, join[s].team_id)) >= MaxTeamSize
                    THEN [@ EXCEPT !.pc = "idle", !.response = "team_full"]
                    ELSE [@ EXCEPT !.pc = "insert"]]
    /\ UNCHANGED <<ledger, status, members, recordings, req, started, poll, admin>>

\* the INSERT and the commit; a row of the same (team, user) raises
\* UniqueViolation
JoinInsert(s) ==
    /\ join[s].pc = "insert"
    /\ LET row == <<join[s].user_id, join[s].team_id>>
       IN  IF row \in members
           THEN /\ members' = members
                /\ join' = [join EXCEPT ![s].pc = "idle",
                                        ![s].response = "already_joined"]
           ELSE /\ members' = members \cup {row}
                /\ join' = [join EXCEPT ![s].pc = "idle",
                                        ![s].response = "success"]
    /\ UNCHANGED <<ledger, status, recordings, req, started, poll, admin>>

\* student_leave_team: DELETE the user's rows in the teams of the session
StudentLeaveTeam(u) ==
    /\ members' = {m \in members : m[1] # u}
    /\ UNCHANGED <<ledger, status, recordings, req, started, poll, join, admin>>

----------------------------------------------------------------------------
(* Initial states: a session with its teams and catalog, and a ledger that  *)
(* earlier submissions, handled one after the other, have written.          *)

\* one earlier submission handled to its end with no other in flight
Sequential(L, team, parsed, R, id) ==
    LET new_turn == GetCurrentTurn(L, team) + 1
        L1 == PlayerTurn(L, team, new_turn, parsed, id)
        o == CHOOSE o \in HandleNpcResponse(parsed, GetTotalViolations(L1, team),
                                            R, {"line"}, {"audio"}) : TRUE
    IN  NpcTurn(L1, team, new_turn, o, id)

RECURSIVE Replay(_, _)
Replay(outs, R) ==
    IF outs = <<>> THEN <<>>
    ELSE Sequential(Replay(SubSeq(outs, 1, Len(outs) - 1), R), 1,
                    outs[Len(outs)], R, Len(outs))

\* v boundary turns followed by p plain canned turns
InitHistory(v, p) ==
    [i \in 1..(v + p) |-> IF i <= v THEN DynOutput(1, FALSE) ELSE PreOutput(0, FALSE)]

\* the ledgers Init starts from: empty; with 2 and 3 boundary turns (around
\* the two thresholds); and with 4 of them, one turn left and none left
InitHistories ==
    {InitHistory(0, 0), InitHistory(DynThreshold - 1, 0),
     InitHistory(DynThreshold, 0),
     InitHistory(ExitThreshold, MaxTurns - ExitThreshold - 1),
     InitHistory(ExitThreshold, MaxTurns - ExitThreshold)}

FullCatalog ==
    {Recording(ScenarioId, "greeting", "url", "hello"),
     Recording(ScenarioId, "boundary_pre", "url", "what?")}

\* the scenario has no recording of its own, another scenario has a
\* boundary_pre one
SharedOnlyCatalog == {Recording(ScenarioId + 1, "boundary_pre", "url", "huh?")}

\* the scenario's recordings have a transcript but no audio url yet
NoUrlCatalog ==
    {Recording(ScenarioId, "greeting", NULL, "hello"),
     Recording(ScenarioId, "boundary_pre", NULL, "what?")}

EmptyCatalog == {}

\* both users in team 1; only u1 in a team
SameTeam == {<<"u1", 1>>, <<"u2", 1>>}
OneMember == {<<"u1", 1>>}

\* nobody has joined yet; team 1 has one place left; team 1 is full
NoMember == {}
AlmostFullTeam == {<<"m1", 1>>, <<"m2", 1>>, <<"m3", 1>>, <<"m4", 1>>}
FullTeam == AlmostFullTeam \cup {<<"m5", 1>>}

InitWith(histories, catalogs, memberships, statuses) ==
    /\ recordings \in catalogs
    /\ ledger \in {Replay(h, recordings) : h \in {h \in histories : Len(h) <= MaxTurns}}
    /\ status \in statuses
    /\ members \in memberships
    /\ req = [u \in Users |-> IdleReq]
    /\ started = 0
    /\ poll = [u \in Users |-> IdlePoll]
    /\ join = [s \in JoinSlots |-> IdleJoin]
    /\ admin = NoAnswer

Init ==
    InitWith(InitHistories, {FullCatalog}, {SameTeam, OneMember},
             {"waiting", "active", "completed"})

Next ==
    \E u \in Users :
        \/ Validate(u)
        \/ CheckTurnLimit(u)
        \/ ClassifyAndSavePlayer(u, PolicyOutputs)
        \/ ClassifierRaises(u)
        \/ ReadViolations(u)
        \/ NpcResponse(u, {"line", "raise"}, {"audio"})

Spec == Init /\ [][Next]_vars

----------------------------------------------------------------------------
(* The same handlers with every classifier output, every renderer and       *)
(* synthesizer outcome and every catalog, for one member of an active       *)
(* session whose submissions do not overlap.                                 *)

InitOutcomes ==
    InitWith({InitHistory(0, 0), InitHistory(DynThreshold - 1, 0),
              InitHistory(DynThreshold, 0)},
             {FullCatalog, SharedOnlyCatalog, NoUrlCatalog, EmptyCatalog},
             {OneMember}, {"active"})

NextOutcomes ==
    \E u \in {"u1"} :
        \/ Validate(u)
        \/ CheckTurnLimit(u)
        \/ ClassifyAndSavePlayer(u, AnalystOutputs)
        \/ ClassifierRaises(u)
        \/ ReadViolations(u)
        \/ NpcResponse(u, ActorOutcomes, TtsOutcomes)

SpecOutcomes == InitOutcomes /\ [][NextOutcomes]_vars

----------------------------------------------------------------------------
(* Submissions of one member while the members of the team read the         *)
(* history.                                                                 *)

InitPolling ==
    InitWith({InitHistory(0, 0), InitHistory(DynThreshold - 1, 0),
              InitHistory(ExitThreshold, MaxTurns - ExitThreshold - 1)},
             {FullCatalog}, {SameTeam, OneMember}, {"waiting", "active"})

NextPolling ==
    \/ \E u \in {"u1"} :
          \/ Validate(u)
          \/ CheckTurnLimit(u)
          \/ ClassifyAndSavePlayer(u, PolicyOutputs)
          \/ ClassifierRaises(u)
          \/ ReadViolations(u)
          \/ NpcResponse(u, {"line", "raise"}, {"audio"})
    \/ \E u \in Users :
          \/ PollValidate(u)
          \/ PollLogs(u)
          \/ PollCount(u)

SpecPolling == InitPolling /\ [][NextPolling]_vars

----------------------------------------------------------------------------
(* The registry: the teacher starts and completes the session while the     *)
(* students join and leave teams and one of them submits turns.             *)

InitRegistry ==
    InitWith({InitHistory(0, 0)}, {FullCatalog},
             {NoMember, OneMember, AlmostFullTeam, FullTeam},
             {"waiting", "active", "completed"})

NextRegistry ==
    \/ StartSession
    \/ CompleteSession
    \/ \E s \in JoinSlots :
          \/ \E u \in Users, t \in TeamIds : JoinTeam(s, u, t)
          \/ JoinCheckExisting(s)
          \/ JoinCheckCount(s)
          \/ JoinInsert(s)
    \/ \E u \in Users : StudentLeaveTeam(u)
    \/ \E u \in {"u1"} :
          \/ Validate(u)
          \/ CheckTurnLimit(u)
          \/ ClassifyAndSavePlayer(u, PolicyOutputs)
          \/ ClassifierRaises(u)
          \/ ReadViolations(u)
          \/ NpcResponse(u, {"line", "raise"}, {"audio"})

SpecRegistry == InitRegistry /\ [][NextRegistry]_vars

----------------------------------------------------------------------------
(* Vocabulary of the properties *)

\* the request of u has been answered
Done(u) == req[u].pc = "idle" /\ req[u].id # 0

\* the request of u went through handle_npc_response
Resolved(u) == Done(u) /\ req[u].new_turn # 0

Succeeded(u) == Done(u) /\ req[u].response.code = "success"

\* the ledger positions of the rows the request of u wrote
OwnRows(u, speaker) ==
    {i \in DOMAIN ledger : ledger[i].req = req[u].id /\ ledger[i].speaker = speaker}

IsViolation(row) ==
    /\ row.speaker = "player"
    /\ "boundary" \in DOMAIN row.analyst_json
    /\ row.analyst_json["boundary"] = 1

\* the boundary=1 player turns of the pair recorded before position i
ViolationsBefore(i) ==
    Cardinality({j \in 1..(i - 1) :
                    /\ ledger[j].team = ledger[i].team
                    /\ ledger[j].scenario = ledger[i].scenario
                    /\ IsViolation(ledger[j])})

\* the request of u was classified boundary=1 / goal_achieved=true
Boundary(u) == Get(req[u].parsed, "boundary", 0) = 1
Goal(u) == Get(req[u].parsed, "goal_achieved", FALSE) = TRUE

\* the NPC row of u is the tier-2 Exit / the tier-1 line / the canned line /
\* the goal-completion line
ExitRow(i) == ledger[i].message_text = "[EXIT]"
CannedBoundaryRow(i) == ledger[i].message_text = "[BOUNDARY_PRE]"
GoalRow(i) == ledger[i].message_text = "[GOAL_ACHIEVED]"

----------------------------------------------------------------------------
(* C1 - C3: turn numbering and serialization *)

\* C1: for every (team, scenario) the turn numbers are gap-free and strictly
\* increasing, concurrent submissions of team members included: the k-th
\* player turn recorded carries turn_number k.
C1_TurnNumbersGapFree ==
    \A t \in TeamIds :
        \A k \in 1..Len(PlayerRows(ledger, t)) :
            PlayerRows(ledger, t)[k].turn_number = k

\* C2: two submissions for the same (team, scenario) never leave two turns,
\* one written by each, with the same turn_number.
C2_NoSharedTurnNumber ==
    \A i, j \in DOMAIN ledger :
        (/\ ledger[i].req # ledger[j].req
         /\ ledger[i].team = ledger[j].team
         /\ ledger[i].scenario = ledger[j].scenario)
            => ledger[i].turn_number # ledger[j].turn_number

\* C3: concurrent submissions are serialized: the escalation tier applied to
\* a boundary=1 submission is the tier of the sequential execution in ledger
\* order (the violations recorded before its player turn, and that turn),
\* so that no violation is counted twice and no tier is skipped, and the
\* rows of a submission are not split by rows of another.
C3_TierOfSequentialExecution ==
    \A u \in Users :
        (req[u].pc = "npc" \/ Resolved(u)) =>
            \A i \in OwnRows(u, "player") :
                /\ Boundary(u) =>
                      BoundaryTier(req[u].total_violations)
                          = BoundaryTier(ViolationsBefore(i) + 1)
                /\ \A n \in OwnRows(u, "npc") : n = i + 1

----------------------------------------------------------------------------
(* C4: the violation count *)

\* the player turns of the pair whose stored classification has boundary=1
BoundaryTurns(L, team) ==
    {i \in DOMAIN L : L[i].team = team /\ L[i].scenario = ScenarioId /\ IsViolation(L[i])}

\* C4: the count get_total_violations hands to the escalation policy equals
\* the number of recorded player turns of the (team, scenario) whose stored
\* classification has boundary=1; it is computed from the ledger alone.
C4_ViolationsCountBoundaryTurns ==
    [][\A u \in Users :
          (req[u].pc = "violations" /\ req'[u].pc = "npc") =>
              req'[u].total_violations
                  = Cardinality(BoundaryTurns(ledger, req[u].team_id))]_vars

C4_Witness ==
    \E u \in Users :
        /\ req[u].pc = "npc"
        /\ req[u].total_violations >= 2
        /\ req[u].total_violations < GetCurrentTurn(ledger, req[u].team_id)

----------------------------------------------------------------------------
(* C5 - C7: the escalation tiers of a boundary=1 turn *)

\* the resolved NPC turn of u is the tier-1 line: generated, with the
\* clarification / restatement direction, neither canned nor an Exit
TierOne(u) ==
    /\ req[u].direction = BoundaryDynDirection
    /\ req[u].actor_calls = 1
    /\ ~req[u].response.is_exit
    /\ OwnRows(u, "npc") # {}
    /\ \A n \in OwnRows(u, "npc") : ledger[n].message_text = NULL

\* the resolved NPC turn of u is the Exit
TierTwo(u) ==
    /\ req[u].direction = ExitDirection
    /\ req[u].response.is_exit
    /\ OwnRows(u, "npc") # {}
    /\ \A n \in OwnRows(u, "npc") : ExitRow(n)

\* the resolved NPC turn of u is the canned boundary line, no renderer call
TierZero(u) ==
    /\ req[u].actor_calls = 0
    /\ ~req[u].response.is_exit
    /\ OwnRows(u, "npc") # {}
    /\ \A n \in OwnRows(u, "npc") : CannedBoundaryRow(n) /\ Truthy(ledger[n].actor_line)

\* C5 as stated: boundary=1 with exactly 3 earlier boundary turns (the
\* current turn not counted) is answered on tier 1.
C5_ThreeEarlierIsTierOne ==
    \A u \in Users :
        (Succeeded(u) /\ Boundary(u)) =>
            \A i \in OwnRows(u, "player") :
                ViolationsBefore(i) = 3 => TierOne(u)

\* C5, amended: the count the tiers are computed from includes the current
\* turn.  A boundary=1 turn is answered on tier 1 when that count is exactly
\* 3 (exactly 2 earlier boundary turns when no other submission overlaps);
\* with 3 or more earlier boundary turns it is answered with the Exit.
C5_CountThreeIsTierOne ==
    \A u \in Users :
        (Succeeded(u) /\ Boundary(u)) =>
            /\ req[u].total_violations = 3 => TierOne(u)
            /\ \A i \in OwnRows(u, "player") :
                  /\ req[u].total_violations >= ViolationsBefore(i) + 1
                  /\ ViolationsBefore(i) >= 3 => TierTwo(u)

C5_Witness ==
    \E u \in Users :
        /\ Succeeded(u) /\ Boundary(u) /\ TierOne(u)
        /\ req[u].total_violations = 3
        /\ \E i \in OwnRows(u, "player") : ViolationsBefore(i) = 2

\* C6: boundary=1 with 4 or more earlier boundary turns: the NPC turn is
\* recorded with the EXIT marker and the response reports is_exit; when the
\* renderer raises, no NPC turn is recorded at all.
C6_FourEarlierIsExit ==
    \A u \in Users :
        (Resolved(u) /\ Boundary(u)) =>
            \A i \in OwnRows(u, "player") :
                ViolationsBefore(i) >= 4 =>
                    IF Succeeded(u) THEN TierTwo(u) ELSE OwnRows(u, "npc") = {}

C6_Witness ==
    \E u \in Users :
        /\ Succeeded(u) /\ Boundary(u) /\ TierTwo(u)
        /\ \E i \in OwnRows(u, "player") : ViolationsBefore(i) >= 4

\* C7 as stated: boundary=1 with fewer than 3 earlier boundary turns is
\* answered with the canned boundary line and no renderer call.
C7_FewerThanThreeEarlierIsCanned ==
    \A u \in Users :
        (Succeeded(u) /\ Boundary(u)) =>
            \A i \in OwnRows(u, "player") :
                ViolationsBefore(i) < 3 => TierZero(u)

\* C7, amended: a boundary=1 turn is answered with the canned boundary line,
\* without a renderer call, when the count including the current turn is
\* below 3 (0 or 1 earlier boundary turns when no other submission
\* overlaps); with 2 or more earlier boundary turns it is never canned.
C7_CountBelowThreeIsCanned ==
    \A u \in Users :
        (Resolved(u) /\ Boundary(u)) =>
            /\ req[u].total_violations < 3 => (Succeeded(u) /\ TierZero(u))
            /\ \A i \in OwnRows(u, "player") :
                  ViolationsBefore(i) >= 2 =>
                      \A n \in OwnRows(u, "npc") : ~CannedBoundaryRow(n)

C7_Witness ==
    \E u \in Users :
        /\ Succeeded(u) /\ Boundary(u) /\ TierZero(u)
        /\ req[u].total_violations = 2
        /\ \E i \in OwnRows(u, "player") : ViolationsBefore(i) = 1

----------------------------------------------------------------------------
(* C8, C9: goal completion *)

\* the resolved NPC turn of u is the goal-completion line: generated, the
\* closing-line direction in front, the GOAL_ACHIEVED marker on the row, and
\* goal_achieved = true in the response
Farewell(u) ==
    /\ req[u].actor_calls = 1
    /\ req[u].direction # <<>>
    /\ Head(req[u].direction) = Head(FarewellDirection)
    /\ req[u].response.goal_achieved
    /\ OwnRows(u, "npc") # {}
    /\ \A n \in OwnRows(u, "npc") : GoalRow(n)

\* C8 as stated: every goal_achieved=true turn that is not resolved as the
\* tier-2 Exit is answered with the goal-completion line, whatever its
\* boundary flag and whatever route the classifier proposed.
C8_GoalAlwaysFarewell ==
    \A u \in Users :
        (Succeeded(u) /\ Goal(u) /\ ~req[u].response.is_exit) => Farewell(u)

\* C8, amended: every goal_achieved=true turn whose boundary flag is not 1
\* is answered with the goal-completion line, whatever route the classifier
\* proposed; on a boundary=1 turn the boundary tier alone decides the NPC
\* turn, no GOAL_ACHIEVED marker is recorded and the response reports
\* goal_achieved = false.
C8_GoalFarewellUnlessBoundary ==
    \A u \in Users :
        (Succeeded(u) /\ Goal(u)) =>
            IF Boundary(u)
            THEN /\ ~req[u].response.goal_achieved
                 /\ \A n \in OwnRows(u, "npc") : ~GoalRow(n)
            ELSE Farewell(u)

C8_Witness ==
    \E u \in Users :
        /\ Succeeded(u) /\ Goal(u) /\ ~Boundary(u) /\ Farewell(u)
        /\ req[u].parsed["route"] = "PRE"

\* C9: when the tier-2 Exit and goal_achieved=true fire on the same turn the
\* Exit wins: EXIT marker and end-the-conversation direction, no
\* GOAL_ACHIEVED marker, no closing-line direction; no NPC turn is both an
\* Exit and a goal completion.
C9_ExitWinsOverGoal ==
    /\ \A u \in Users :
          (Succeeded(u) /\ Goal(u) /\ Boundary(u)
                /\ BoundaryTier(req[u].total_violations) = 2) =>
              /\ TierTwo(u)
              /\ ~req[u].response.goal_achieved
    /\ \A u \in Users :
          Succeeded(u) =>
              /\ ~(req[u].response.is_exit /\ req[u].response.goal_achieved)
              /\ \A n \in OwnRows(u, "npc") :
                    /\ ExitRow(n) => (req[u].response.is_exit /\ req[u].direction = ExitDirection)
                    /\ GoalRow(n) => (req[u].response.goal_achieved /\ ~req[u].response.is_exit)

C9_Witness ==
    \E u \in Users :
        /\ Succeeded(u) /\ Goal(u) /\ Boundary(u) /\ TierTwo(u)
        /\ \E i \in OwnRows(u, "player") : ViolationsBefore(i) >= 4

----------------------------------------------------------------------------
(* C10: the turn limit *)

\* C10: a submission that finds 8 player turns recorded fails with the
\* turn-limit error and appends no turn; only a submission that found fewer
\* goes on to the classifier.
C10_NinthSubmissionRejected ==
    \A u \in Users :
        /\ (Done(u) /\ req[u].current_turn >= MaxTurns) =>
              /\ req[u].response.code = "turn_limit_reached"
              /\ OwnRows(u, "player") \cup OwnRows(u, "npc") = {}
        /\ req[u].pc \in {"analyst", "violations", "npc"} =>
              req[u].current_turn < MaxTurns
        /\ OwnRows(u, "player") # {} => req[u].current_turn < MaxTurns

C10_Witness ==
    \E u \in Users :
        /\ Done(u)
        /\ req[u].response.code = "turn_limit_reached"
        /\ GetCurrentTurn(ledger, req[u].team_id) = MaxTurns
        /\ OwnRows(u, "player") \cup OwnRows(u, "npc") = {}

----------------------------------------------------------------------------
(* C11: the cap on the conversation length *)

\* C11: in every reachable state, concurrent submissions of team members
\* included, at most 8 player turns are recorded for a (team, scenario), and
\* the turns_remaining a submission reports and the one a history read
\* would report are never negative.
C11_AtMostEightPlayerTurns ==
    /\ \A t \in TeamIds :
          /\ GetCurrentTurn(ledger, t) <= MaxTurns
          /\ HistoryTurnsRemaining(ledger, t) >= 0
    /\ \A u \in Users :
          Succeeded(u) => req[u].response.turns_remaining >= 0

----------------------------------------------------------------------------
(* C12 - C14: appends and calls of one submission *)

\* C12: every submission that returns success has appended exactly one
\* player turn and exactly one NPC turn, whatever output of the classifier
\* the orchestrator accepted (no route, an unknown route and the
\* parse_error record included).
C12_OnePlayerAndOneNpcTurn ==
    \A u \in Users :
        Succeeded(u) =>
            /\ Cardinality(OwnRows(u, "player")) = 1
            /\ Cardinality(OwnRows(u, "npc")) = 1

\* the route the policy resolves for the request of u is canned: the
\* classifier's PRE category on a boundary=0 turn without goal completion,
\* or tier 0 of the escalation
CannedRoute(u) ==
    \/ /\ ~Boundary(u) /\ ~Goal(u)
       /\ Get(req[u].parsed, "route", NULL) = "PRE"
    \/ /\ Boundary(u)
       /\ BoundaryTier(req[u].total_violations) = 0

Unparseable(u) == "parse_error" \in DOMAIN req[u].parsed

\* C14: when the classifier's output is unparseable the classifier is called
\* once more with the same input, and when no parseable output is obtained
\* the submission fails with ClassificationFailed and appends no turn,
\* neither a player turn nor an NPC turn.
C14_UnparseableRetriedThenFails ==
    \A u \in Users :
        (Done(u) /\ Unparseable(u)) =>
            /\ req[u].analyst_calls = 2
            /\ req[u].response.code # "success"
            /\ OwnRows(u, "player") \cup OwnRows(u, "npc") = {}

----------------------------------------------------------------------------
(* C15: the preconditions of a submission *)

\* C15: membership is checked before the session status and the status
\* before the turn limit: a caller who is in no team of the session is
\* answered Unauthorized, a member of a session that is not active
\* SessionNotActive, whatever the turn count; in both cases no classifier or
\* renderer call is made and the request writes no turn.
C15_MembershipThenStatusThenLimit ==
    \A u \in Users :
        Done(u) =>
            /\ ValidatePlayerSession(members, u) = {} =>
                  req[u].response.code = "unauthorized"
            /\ (ValidatePlayerSession(members, u) # {} /\ status # "active") =>
                  req[u].response.code = "session_not_active"
            /\ req[u].response.code \in {"unauthorized", "session_not_active"} =>
                  /\ req[u].analyst_calls = 0
                  /\ req[u].actor_calls = 0
                  /\ OwnRows(u, "player") \cup OwnRows(u, "npc") = {}

\* a full ledger and a session that is not active: the non-member is
\* answered Unauthorized and the member SessionNotActive
C15_Witness ==
    /\ status # "active"
    /\ \E t \in TeamIds : GetCurrentTurn(ledger, t) = MaxTurns
    /\ \E u \in Users :
          /\ Done(u) /\ ValidatePlayerSession(members, u) = {}
          /\ req[u].response.code = "unauthorized"
    /\ \E u \in Users :
          /\ Done(u) /\ GetCurrentTurn(ledger, req[u].team_id) = MaxTurns
          /\ req[u].response.code = "session_not_active"

----------------------------------------------------------------------------
(* C16, C17: the player turn and a failure after classification *)

\* the request of u failed in handle_npc_response: the renderer raised (a
\* save of the NPC turn that raises leaves the same ledger and response)
FailedAfterClassification(u) == Resolved(u) /\ req[u].response.code = "error"

\* C16: the player turn, with the classifier's whole record, is in the
\* ledger once the classifier has returned and before any renderer, catalog
\* or synthesizer step and before the NPC turn; when the renderer fails it
\* is still there.
C16_PlayerTurnSavedBeforeNpcSide ==
    \A u \in Users :
        /\ req[u].pc \in {"turn_limit", "analyst"} =>
              OwnRows(u, "player") \cup OwnRows(u, "npc") = {}
        /\ req[u].pc \in {"violations", "npc"} =>
              /\ Cardinality(OwnRows(u, "player")) = 1
              /\ OwnRows(u, "npc") = {}
              /\ req[u].actor_calls = 0
        /\ (req[u].pc \in {"violations", "npc"} \/ Resolved(u)) =>
              /\ \A i \in OwnRows(u, "player") :
                    /\ ledger[i].analyst_json = req[u].parsed
                    /\ ledger[i].turn_number = req[u].new_turn
                    /\ \A n \in OwnRows(u, "npc") : i < n
        /\ FailedAfterClassification(u) =>
              /\ Cardinality(OwnRows(u, "player")) = 1
              /\ OwnRows(u, "npc") = {}

C16_Witness ==
    \E u \in Users :
        /\ FailedAfterClassification(u)
        /\ req[u].actor_calls = 1
        /\ \E i \in OwnRows(u, "player") : ledger[i].analyst_json = req[u].parsed

\* C17: a submission that fails after classification (the renderer is
\* unreachable, or the write of the NPC turn fails) leaves no turn of its
\* own in the ledger, so that the same utterance resubmitted gets the turn
\* number the failed attempt would have had.
C17_NoPartialWrite ==
    \A u \in Users :
        FailedAfterClassification(u) =>
            /\ OwnRows(u, "player") \cup OwnRows(u, "npc") = {}
            /\ GetCurrentTurn(ledger, req[u].team_id) + 1 = req[u].new_turn

----------------------------------------------------------------------------
(* C18: synthesis failure *)

\* C18: on the generated route a failure of the synthesizer never fails the
\* submission: once the renderer has returned a line, the submission
\* succeeds, the line is returned and recorded as the NPC turn, and the
\* audio returned is the audio recorded, null when the synthesis failed.
C18_SynthesisFailureNotFatal ==
    \A u \in Users :
        (Resolved(u) /\ Truthy(req[u].actor_line)) =>
            /\ Succeeded(u)
            /\ req[u].response.actor_line = req[u].actor_line
            /\ Cardinality(OwnRows(u, "npc")) = 1
            /\ \A n \in OwnRows(u, "npc") :
                  /\ ledger[n].actor_line = req[u].actor_line
                  /\ ledger[n].tts_audio_base64 = req[u].response.tts_audio_base64
                  /\ ledger[n].tts_audio_base64 \in TtsOutcomes

C18_Witness ==
    \E u \in Users :
        /\ Succeeded(u) /\ Truthy(req[u].actor_line)
        /\ req[u].response.tts_audio_base64 = NULL
        /\ \E n \in OwnRows(u, "npc") :
              /\ ledger[n].actor_line = req[u].response.actor_line
              /\ ledger[n].tts_audio_base64 = NULL

----------------------------------------------------------------------------
(* C19: the canned line and the catalog *)

\* C19: whenever the resolved route is canned (the classifier's PRE category
\* on a boundary=0 turn, or the tier-0 boundary line), whatever the catalog
\* holds for the scenario and the category, an NPC line is recorded that is
\* not empty (the scenario's recording, else a shared one, else the literal
\* default line), and no renderer call is made.
C19_CannedLineNeverEmpty ==
    \A u \in Users :
        (Succeeded(u) /\ CannedRoute(u)) =>
            /\ req[u].actor_calls = 0
            /\ OwnRows(u, "npc") # {}
            /\ \A n \in OwnRows(u, "npc") : Truthy(ledger[n].actor_line)

----------------------------------------------------------------------------
(* C20: the history shown to the generative stages *)

\* the synthetic markers save_turn is given as message_text of an NPC turn
IsMarker(text) ==
    text \in {"[EXIT]", "[GOAL_ACHIEVED]", "[BOUNDARY_PRE]",
              PreMarker("greeting"), PreMarker("not_understood"), PreMarker("")}

\* C20: for every reachable ledger, no NPC entry of the history that
\* load_conversation_history rebuilds has a synthetic marker as its text,
\* the NPC turns whose rendered or canned line is empty included.
C20_NoMarkerInHistory ==
    \A t \in TeamIds :
        LET history == LoadConversationHistory(ledger, t)
        IN  \A i \in DOMAIN history :
                history[i].role = "npc" => ~IsMarker(history[i].text)

----------------------------------------------------------------------------
(* C21: the history read *)

\* the ledger positions of the turns of a team
PairRows(team) ==
    {i \in DOMAIN ledger : ledger[i].team = team /\ ledger[i].scenario = ScenarioId}

\* the user has the turns of a history read in hand
HasLogs(u) == poll[u].pc = "count" \/ poll[u].response.code = "success"

LogsOf(u) == IF poll[u].pc = "count" THEN poll[u].logs ELSE poll[u].response.logs

\* logs holds the turns of the team in the ledger, each once, ordered by
\* turn_number
IsHistoryOf(logs, team) ==
    /\ Len(logs) = Cardinality(PairRows(team))
    /\ \A i, j \in DOMAIN logs : i < j => logs[i].turn_number <= logs[j].turn_number
    /\ \A n \in 1..MaxTurns : \A sp \in {"player", "npc"} :
          Cardinality({i \in DOMAIN logs :
                          logs[i].turn_number = n /\ logs[i].speaker = sp})
            = Cardinality({i \in PairRows(team) :
                              ledger[i].turn_number = n /\ ledger[i].speaker = sp})
    /\ \A i \in DOMAIN logs : \E k \in PairRows(team) : logs[i] = LogColumns(ledger[k])

\* C21: a history read changes no state (ledger, session status, team
\* membership, catalog, submissions in flight); the turns it returns are the
\* turns of the caller's team in the ledger, so that two reads with no turn
\* appended in between return the same turns; and the current turn count it
\* returns is the number of player turns in the ledger, with
\* turns_remaining = 8 minus that count.
C21_HistoryReadChangesNothing ==
    [][/\ \A u, v \in Users :
             (/\ HasLogs(u) /\ HasLogs(v)
              /\ poll[u].team_id = poll[v].team_id
              /\ Len(LogsOf(u)) = Len(LogsOf(v)))
                 => LogsOf(u) = LogsOf(v)
       /\ \A u \in Users :
             poll'[u] # poll[u] =>
                 /\ ledger' = ledger /\ status' = status /\ members' = members
                 /\ recordings' = recordings /\ req' = req
                 /\ poll'[u].pc = "count" =>
                       IsHistoryOf(poll'[u].logs, poll'[u].team_id)
                 /\ poll'[u].response.code = "success" =>
                       /\ poll'[u].response.logs = poll[u].logs
                       /\ poll'[u].response.current_turn
                             = Cardinality({i \in PairRows(poll[u].team_id) :
                                               ledger[i].speaker = "player"})
                       /\ poll'[u].response.turns_remaining
                             = MaxTurns - poll'[u].response.current_turn]_vars

\* two members have read the same turns, and one of the reads overlapped a
\* submission or followed it
C21_Witness ==
    \E u, v \in Users :
        /\ u # v
        /\ poll[u].response.code = "success" /\ poll[v].response.code = "success"
        /\ poll[u].response.logs = poll[v].response.logs
        /\ Len(poll[u].response.logs) >= 2
        /\ poll[u].response.current_turn = GetCurrentTurn(ledger, poll[u].team_id)
        /\ poll[u].response.turns_remaining = MaxTurns - poll[u].response.current_turn

----------------------------------------------------------------------------
(* C22, C29: the session lifecycle *)

\* the place of a status in the lifecycle waiting, active, completed
Rank(st) ==
    CASE st = "waiting" -> 0
      [] st = "active" -> 1
      [] st = "completed" -> 2

\* C22: over any sequence of start_session and complete_session calls the
\* status never moves back in the order waiting, active, completed, and a
\* start_session call on a session that is not waiting is rejected and
\* leaves the status as it was.
C22_StatusOnlyForward ==
    [][/\ Rank(status') >= Rank(status)
       /\ (admin' # admin /\ admin'.op = "start") =>
             IF status = "waiting"
             THEN admin'.code = "success" /\ status' = "active"
             ELSE admin'.code = "rejected" /\ status' = status]_vars

\* start_session has been rejected on a session that was started, and on one
\* that is completed
C22_Witness ==
    /\ admin = [op |-> "start", code |-> "rejected"]
    /\ status \in {"active", "completed"}
    /\ \E u \in Users : Succeeded(u)

\* C29: the status becomes completed from the status active only: a session
\* that is still waiting is not moved to completed.
C29_CompletedOnlyFromActive ==
    [][(status' = "completed" /\ status # "completed") => status = "active"]_vars

----------------------------------------------------------------------------
(* C23, C28: team membership *)

\* the teams of the session a participant is a member of
TeamsOf(M, user_id) == {m[2] : m \in {x \in M : x[1] = user_id}}

\* C23: in every reachable state, concurrent join-team requests of one
\* participant for two teams of the session included, a participant is a
\* member of at most one team of the session.
C23_AtMostOneTeamPerParticipant ==
    \A m \in members : Cardinality(TeamsOf(members, m[1])) <= 1

\* C28: in every reachable state, concurrent join-team requests of different
\* participants for one team included, a team has at most 5 members.
C28_AtMostFiveMembers ==
    \A t \in TeamIds : Cardinality(TeamMembers(members, t)) <= MaxTeamSize

----------------------------------------------------------------------------
(* C24: the ledger is append-only *)

\* C24: every step of every submission, successful or failed, leaves every
\* turn recorded before it as it was (turn_number, speaker, text,
\* classification record) and removes none: the ledger only grows at its
\* end.
C24_LedgerAppendOnly ==
    [][/\ Len(ledger') >= Len(ledger)
       /\ SubSeq(ledger', 1, Len(ledger)) = ledger]_vars

\* a submission has failed after its player turn and another has succeeded,
\* on a ledger that held turns before
C24_Witness ==
    /\ \E i \in DOMAIN ledger : ledger[i].req <= MaxTurns
    /\ \E u \in Users : FailedAfterClassification(u) /\ OwnRows(u, "player") # {}
    /\ \E u \in Users : Succeeded(u) /\ OwnRows(u, "npc") # {}

----------------------------------------------------------------------------
(* C25: submissions after an Exit *)

\* an Exit turn of the team of u is recorded, before every turn of the
\* request of u
ExitRecordedBefore(u) ==
    \E i \in DOMAIN ledger :
        /\ ExitRow(i)
        /\ ledger[i].team = req[u].team_id
        /\ ledger[i].req # req[u].id
        /\ \A j \in OwnRows(u, "player") : i < j

\* C25: after an Exit turn has been recorded for the (team, scenario), a
\* submission of a team member that finds the session active and fewer than
\* 8 player turns is not rejected: it is classified, appends its player turn
\* with the next turn number and, when it succeeds, its NPC turn.
C25_AcceptedAfterExit ==
    \A u \in Users :
        (/\ Done(u) /\ ExitRecordedBefore(u)
         /\ ValidatePlayerSession(members, u) # {} /\ status = "active"
         /\ req[u].current_turn < MaxTurns) =>
            /\ req[u].response.code \in {"success", "error"}
            /\ req[u].analyst_calls = 1
            /\ Resolved(u) =>
                  /\ Cardinality(OwnRows(u, "player")) = 1
                  /\ \A i \in OwnRows(u, "player") :
                        ledger[i].turn_number = req[u].current_turn + 1
            /\ Succeeded(u) => Cardinality(OwnRows(u, "npc")) = 1

\* after the Exit, a plain turn is answered from the catalog
C25_Witness ==
    \E u \in Users :
        /\ Succeeded(u) /\ ExitRecordedBefore(u) /\ ~Boundary(u)
        /\ req[u].current_turn < MaxTurns
        /\ OwnRows(u, "player") # {}
        /\ \E n \in OwnRows(u, "npc") : ledger[n].message_text = PreMarker("greeting")

----------------------------------------------------------------------------
(* C26: the route of a plain turn *)

\* the request of u was classified boundary=0 and goal_achieved=false, with
\* the given route
PlainTurn(u, route) ==
    /\ Resolved(u) /\ ~Boundary(u) /\ ~Goal(u)
    /\ Get(req[u].parsed, "route", NULL) = route

\* C26: a turn classified boundary=0 and goal_achieved=false is resolved on
\* the classifier's route whatever the violation count, which only puts a
\* direction in front of the classifier's: route PRE records the NPC turn of
\* the classifier's category from the catalog, without a renderer call, and
\* turns_remaining is one less than before the call; route DYN calls the
\* renderer once.
C26_RouteAsClassified ==
    \A u \in Users :
        /\ PlainTurn(u, "PRE") =>
              /\ Succeeded(u)
              /\ req[u].actor_calls = 0
              /\ Cardinality(OwnRows(u, "npc")) = 1
              /\ \A n \in OwnRows(u, "npc") :
                    /\ ledger[n].message_text
                          = PreMarker(Get(req[u].parsed, "category", ""))
                    /\ <<ledger[n].pre_audio_url, ledger[n].actor_line>>
                          \in GetPreAudioUrl(recordings, Get(req[u].parsed, "category", ""))
              /\ ~req[u].response.is_exit
              /\ ~req[u].response.goal_achieved
              /\ req[u].response.turns_remaining
                    = (MaxTurns - req[u].current_turn) - 1
        /\ PlainTurn(u, "DYN") =>
              /\ req[u].actor_calls = 1
              /\ req[u].direction
                    = Aftereffect(req[u].total_violations)
                          \o Get(req[u].parsed, "direction", <<>>)
              /\ \A n \in OwnRows(u, "npc") : ledger[n].message_text = NULL

\* a canned greeting after three recorded violations
C26_Witness ==
    \E u \in Users :
        /\ PlainTurn(u, "PRE") /\ Succeeded(u)
        /\ req[u].total_violations >= DynThreshold
        /\ req[u].actor_calls = 0
        /\ req[u].response.turns_remaining = (MaxTurns - req[u].current_turn) - 1
        /\ \E n \in OwnRows(u, "npc") :
              /\ ledger[n].message_text = PreMarker("greeting")
              /\ Truthy(ledger[n].actor_line)

----------------------------------------------------------------------------
(* C27: the escalation over the turns of a pair *)

\* the NPC turn at position a answers the boundary=1 player turn at position i
Answers(a, i) ==
    /\ IsViolation(ledger[i])
    /\ ledger[a].speaker = "npc"
    /\ ledger[a].team = ledger[i].team
    /\ ledger[a].scenario = ledger[i].scenario
    /\ ledger[a].turn_number = ledger[i].turn_number

\* the boundary=1 player turn at position i is answered on tier 1 / with an
\* Exit (the tier-1 line is generated and carries no marker)
AnsweredTierOne(i) ==
    \E a \in DOMAIN ledger : Answers(a, i) /\ ledger[a].message_text = NULL
AnsweredExit(i) ==
    \E a \in DOMAIN ledger : Answers(a, i) /\ ExitRow(a)

\* C27: over the turns of one (team, scenario), submitted one after the
\* other, the escalation never goes back: a boundary=1 turn recorded after
\* one answered on tier 1 or with an Exit is answered with an Exit, so that
\* the tier-1 line is given at most once.
C27_EscalationNeverGoesBack ==
    \A i \in DOMAIN ledger :
        (AnsweredTierOne(i) \/ AnsweredExit(i)) =>
            \A j \in (i + 1)..Len(ledger) :
                ledger[j].team = ledger[i].team =>
                    \A b \in DOMAIN ledger : Answers(b, j) => ExitRow(b)

\* tier 1, then an Exit, then another Exit given in this run
C27_Witness ==
    \E i \in DOMAIN ledger :
        /\ AnsweredTierOne(i)
        /\ \E j \in (i + 1)..Len(ledger) :
              /\ ledger[j].team = ledger[i].team
              /\ AnsweredExit(j)
              /\ \E k \in (j + 1)..Len(ledger) :
                    /\ ledger[k].team = ledger[i].team
                    /\ ledger[k].req > MaxTurns
                    /\ AnsweredExit(k)

----------------------------------------------------------------------------
(* C30: appends and the state of the session *)

\* the rows a step appends to the ledger
Appended == {i \in DOMAIN ledger' : i > Len(ledger)}

\* C30: no turn is appended for a team whose session is not active at the
\* moment of the append, nor by a submitter who is no longer a member of the
\* team: whatever the interleaving with complete_session or with the
\* submitter's leave-team request, every player or NPC turn is written
\* while the session is active and its writer a member of the team.
C30_AppendOnlyWhileActiveMember ==
    [][\A i \in Appended :
          /\ status = "active"
          /\ \A u \in Users :
                req[u].id = ledger'[i].req =>
                    ledger'[i].team \in ValidatePlayerSession(members, u)]_vars

====
